---- MODULE Spec2Model ----
(***************************************************************************)
(* The userstack-react session cache: the UserstackProvider component,    *)
(* its in-memory state (three useState cells), the `_us_session` cookie   *)
(* and the requests it has in flight.  The repository holds four          *)
(* near-identical providers; `variant` says which one is mounted:         *)
(*   "alpha"    src/src/index.tsx, first module  (lines 1-85)             *)
(*   "alphaTtl" src/src/index.tsx, second module (lines 87-215)           *)
(*   "alpha2"   src/unnamed/part_001                                      *)
(*   "beta"     src/unnamed/part_000                                      *)
(* A JSON object is a function from its keys to its values; a key the     *)
(* object lacks is outside the function's domain.                         *)
(***************************************************************************)
EXTENDS Integers, FiniteSets, Sequences, TLC

VARIABLES variant,      \* which provider is mounted
          sessionId,    \* useState sessionId
          currentPlan,  \* useState currentPlan / currentPackage
          flags,        \* useState flags
          cookie,       \* the cookie jar entry `_us_session`: {} or {[value, expires]}
          inflight,     \* requests awaiting their response
          now,          \* Date.now()
          mounted,      \* has the mount effect run
          last          \* what the last step did, as its caller observes it

vars == <<variant, sessionId, currentPlan, flags, cookie, inflight, now, mounted, last>>

Variants == {"alpha", "alphaTtl", "alpha2", "beta"}

\* ---- bounds
MaxInFlight == 2
MaxTicks == 2

\* ---- JavaScript values
Undefined == "undefined"
EmptyObj == [k \in {} |-> Undefined]
Get(o, k) == IF k \in DOMAIN o THEN o[k] ELSE Undefined

\* {...o, time: t}
SpreadThenTime(o, t) == [k \in DOMAIN o \cup {"time"} |-> IF k = "time" THEN t ELSE o[k]]
\* {time: t, ...o}
TimeThenSpread(o, t) == [k \in DOMAIN o \cup {"time"} |-> IF k \in DOMAIN o THEN o[k] ELSE t]

JSON_stringify(o) == {<<k, o[k]>> : k \in DOMAIN o}
JSON_parse(s) == [k \in {p[1] : p \in s} |-> (CHOOSE p \in s : p[1] = k)[2]]
\* a cookie text that is no JSON: JSON.parse throws a SyntaxError on it
NotJson == {<<"#", "not json">>}
JSON_parse_throws(s) == s = NotJson

\* ---- constants of the program
HasDataTtl(v) == v \in {"alphaTtl", "alpha2", "beta"}
DATA_TTL(v) == CASE v = "beta" -> 60 * 1000
                 [] v \in {"alphaTtl", "alpha2"} -> 120000
Forever == 36500
DayUnits == 60 * 24     \* cookie expiry is kept in 1/(60*24) of a day

\* the clock advances by the shortest staleness window, starting one window in
TickMs == DATA_TTL("beta")

\* ---- the remote service: what a 200 body can be
TierFields(v) == IF v = "beta" THEN {"pkgId", "package"} ELSE {"plan"}

Body(sid, tf, tier, fl) ==
  [k \in {"sessionId", tf, "flags"} |->
     CASE k = "sessionId" -> sid [] k = tf -> tier [] OTHER -> fl]

BaseBodies(v) ==
  {Body("s1", tf, "pro", {<<"beta", TRUE>>}) : tf \in TierFields(v)}
  \cup {Body("s2", tf, "free", {}) : tf \in TierFields(v)}

\* a body with or without a server-side `time`
Bodies(v) == BaseBodies(v) \cup {SpreadThenTime(b, 0) : b \in BaseBodies(v)}

ErrorTexts == {"invalid credential", "server error"}
Configs == {EmptyObj, [ttl |-> 3600]}
PlanIds == {"", "plan_pro"}

\* ---- requests
Req(op, sid, config, planId) ==
  [op |-> op, sessionId |-> sid, config |-> config, planId |-> planId]

NoReq == Req("", "", EmptyObj, "")

\* What a step did: the operation, how it ended for its caller ("raised" is a
\* rejected promise), the requests it issued, the request and the response it
\* handled, the text of the error raised, whether the same operation ran in
\* the step before, and whether the step before was a forget.
Obs(op, outcome, calls, req, resp, text) ==
  [op |-> op, outcome |-> outcome, calls |-> calls, req |-> req, resp |-> resp,
   text |-> text, repeat |-> last.op = op, afterForget |-> last.op = "forget"]

\* a refresh that rethrows like identify
Throws_refresh_too(op) == op \in {"identify", "refresh"} /\ variant = "beta"

\* does a non-ok response make the operation throw
Throws(op) == op = "identify" /\ variant = "beta"
\* the else branch of `if (response.ok)`: log, and throw where the code throws
Failed(r, response) ==
  IF Throws(r.op)
  THEN Obs(r.op, "raised", 0, r, response, Get(response, "text"))
  ELSE Obs(r.op, "logged", 0, r, response, "")

\* ---- the cookie jar
Cookies_get == IF cookie = {} THEN Undefined ELSE (CHOOSE c \in cookie : TRUE).value
Cookies_set(obj, expires) == cookie' = {[value |-> JSON_stringify(obj), expires |-> expires]}
\* forget that leaves the cookie in the jar
Cookies_remove_missing == UNCHANGED cookie
Cookies_remove == cookie' = {}

\* expiry in DayUnits: ttl / 60 / 24 days
calculateCookieExpiry(config) ==
  IF "ttl" \in DOMAIN config THEN config.ttl ELSE Forever

SetState(sid, plan, fl) ==
  /\ sessionId' = sid
  /\ currentPlan' = plan
  /\ flags' = fl

Init ==
  /\ variant \in Variants
  /\ sessionId = ""
  /\ currentPlan = "none"
  /\ flags = {}
  /\ cookie = {}
  /\ inflight = {}
  /\ now = TickMs
  /\ mounted = FALSE
  /\ last = [op |-> "init", outcome |-> "ok", calls |-> 0, req |-> NoReq,
             resp |-> EmptyObj, text |-> "", repeat |-> FALSE,
             afterForget |-> FALSE]

CanSend == Cardinality(inflight) < MaxInFlight
Send(r) == r \notin inflight /\ CanSend /\ inflight' = inflight \cup {r}

\* ---- the mount effect (bootstrap)
Fresh(sessionData) ==
  IF "time" \in DOMAIN sessionData THEN sessionData.time + DATA_TTL(variant) > now
  ELSE FALSE    \* undefined + n is NaN, and NaN > now is false

BootstrapTier(sessionData) ==
  IF variant = "beta" THEN Get(sessionData, "pkgId") ELSE Get(sessionData, "plan")

\* JSON.parse is not guarded: its SyntaxError leaves the effect uncaught and
\* React takes the provider down, until the page is loaded again
Bootstrap ==
  /\ ~mounted
  /\ UNCHANGED <<variant, cookie, now>>
  /\ IF cookie = {}
     THEN /\ mounted' = TRUE
          /\ UNCHANGED <<sessionId, currentPlan, flags, inflight>>
          /\ last' = Obs("bootstrap", "absent", 0, NoReq, EmptyObj, "")
     ELSE IF JSON_parse_throws(Cookies_get)
     THEN /\ mounted' = FALSE
          /\ UNCHANGED <<sessionId, currentPlan, flags, inflight>>
          /\ last' = Obs("bootstrap", "raised", 0, NoReq, EmptyObj, "SyntaxError")
     ELSE /\ mounted' = TRUE
          /\ LET sessionData == JSON_parse(Cookies_get) IN
               IF ~HasDataTtl(variant) \/ Fresh(sessionData)
               THEN /\ SetState(sessionData.sessionId, BootstrapTier(sessionData), sessionData.flags)
                    /\ UNCHANGED inflight
                    /\ last' = Obs("bootstrap", "adopted", 0, NoReq, sessionData, "")
               ELSE LET r == Req("refresh", sessionData.sessionId, EmptyObj, "") IN
                    /\ Send(r)
                    /\ UNCHANGED <<sessionId, currentPlan, flags>>
                    /\ last' = Obs("bootstrap", "refresh", 1, r, sessionData, "")

\* ---- forget
\* a forget that leaves the flags cell as it is
forget_keeps_flags ==
  /\ mounted
  /\ Cookies_remove
  /\ sessionId' = ""
  /\ currentPlan' = "none"
  /\ last' = Obs("forget", "ok", 0, NoReq, EmptyObj, "")
  /\ UNCHANGED <<variant, flags, inflight, now, mounted>>

\* a forget that also abandons the requests in flight
forget_cancels ==
  /\ mounted
  /\ Cookies_remove
  /\ SetState("", "none", {})
  /\ inflight' = {}
  /\ last' = Obs("forget", "ok", 0, NoReq, EmptyObj, "")
  /\ UNCHANGED <<variant, now, mounted>>

forget ==
  /\ mounted
  /\ Cookies_remove
  /\ SetState("", "none", {})
  /\ last' = Obs("forget", "ok", 0, NoReq, EmptyObj, "")
  /\ UNCHANGED <<variant, inflight, now, mounted>>

\* ---- identify
HasOp(op) ==
  CASE op \in {"identify", "forget"} -> TRUE
    [] op = "refresh" -> variant \in {"alphaTtl", "alpha2", "beta"}
    [] op = "setGroup" -> variant \in {"alpha2", "beta"}
    [] op \in {"upgrade", "summary"} -> variant = "alpha2"
    [] OTHER -> FALSE

Days(n) == n * DayUnits

identify(config) ==
  /\ mounted
  /\ Send(Req("identify", "", config, ""))
  /\ last' = Obs("identify", "sent", 1, Req("identify", "", config, ""), EmptyObj, "")
  /\ UNCHANGED <<variant, sessionId, currentPlan, flags, cookie, now, mounted>>

IdentifyCookie(sessionData) ==
  CASE variant = "alpha" -> sessionData
    [] variant = "alphaTtl" -> TimeThenSpread(sessionData, now)
    [] OTHER -> SpreadThenTime(sessionData, now)

IdentifyExpiry(config) ==
  CASE variant = "alpha" -> Days(Forever)
    [] variant = "alphaTtl" ->
         IF "ttl" \in DOMAIN config /\ config.ttl # 0 THEN config.ttl ELSE Days(Forever)
    [] OTHER -> calculateCookieExpiry(config)

IdentifySetsState == variant = "beta"

identify_ok(r, sessionData) ==
  /\ r.op = "identify"
  /\ inflight' = inflight \ {r}
  /\ LET c == IdentifyCookie(sessionData) IN
       /\ Cookies_set(c, IdentifyExpiry(r.config))
       /\ IF IdentifySetsState
          THEN SetState(c.sessionId, Get(c, "pkgId"), c.flags)
          ELSE UNCHANGED <<sessionId, currentPlan, flags>>
  /\ last' = Obs("identify", "ok", 0, r, sessionData, "")
  /\ UNCHANGED <<variant, now, mounted>>


identify_fail(r, responseText) ==
  /\ r.op = "identify"
  /\ inflight' = inflight \ {r}
  /\ last' = Failed(r, [text |-> responseText])
  /\ UNCHANGED <<variant, sessionId, currentPlan, flags, cookie, now, mounted>>

\* ---- refresh and setGroup / setIdGroup adopt a response the same way
AdoptSetsState == variant \in {"alpha2", "beta"}

AdoptTier(c) == IF variant = "beta" THEN Get(c, "package") ELSE Get(c, "plan")

\* an adoption that takes its expiry from calculateCookieExpiry() like identify
Adopt_expiry_calculated(sessionData) ==
  LET c == TimeThenSpread(sessionData, now) IN
    /\ IF AdoptSetsState
       THEN SetState(c.sessionId, AdoptTier(c), c.flags)
       ELSE UNCHANGED <<sessionId, currentPlan, flags>>
    /\ Cookies_set(c, calculateCookieExpiry(EmptyObj))

Adopt(sessionData) ==
  LET c == TimeThenSpread(sessionData, now) IN
    /\ IF AdoptSetsState
       THEN SetState(c.sessionId, AdoptTier(c), c.flags)
       ELSE UNCHANGED <<sessionId, currentPlan, flags>>
    /\ Cookies_set(c, Days(Forever))

\* a failure branch that drops the persisted record
FailureLogged_drops_cookie == cookie' = {} /\ UNCHANGED <<sessionId, currentPlan, flags>>
FailureLogged == UNCHANGED <<sessionId, currentPlan, flags, cookie>>

refresh_ok(r, sessionData) ==
  /\ r.op = "refresh"
  /\ inflight' = inflight \ {r}
  /\ Adopt(sessionData)
  /\ last' = Obs("refresh", "ok", 0, r, sessionData, "")
  /\ UNCHANGED <<variant, now, mounted>>

refresh_fail(r) ==
  /\ r.op = "refresh"
  /\ inflight' = inflight \ {r}
  /\ FailureLogged
  /\ last' = Failed(r, EmptyObj)
  /\ UNCHANGED <<variant, now, mounted>>

\* ---- setGroup (beta) / setIdGroup (alpha2)
getCookie == IF cookie = {} THEN EmptyObj ELSE JSON_parse(Cookies_get)

SetGroupSkips == variant = "beta" /\ sessionId = "" /\ cookie = {}

\* getCookie's JSON.parse is not guarded either
SetGroupThrows ==
  variant = "beta" /\ sessionId = "" /\ cookie # {} /\ JSON_parse_throws(Cookies_get)

SetGroupSid ==
  IF variant = "beta" /\ sessionId = "" THEN Get(getCookie, "sessionId") ELSE sessionId

setGroup ==
  /\ mounted
  /\ HasOp("setGroup")
  /\ IF SetGroupSkips
     THEN /\ UNCHANGED inflight
          /\ last' = Obs("setGroup", "skipped", 0, NoReq, EmptyObj, "")
     ELSE IF SetGroupThrows
     THEN /\ UNCHANGED inflight
          /\ last' = Obs("setGroup", "raised", 0, NoReq, EmptyObj, "SyntaxError")
     ELSE LET r == Req("setGroup", SetGroupSid, EmptyObj, "") IN
          /\ Send(r)
          /\ last' = Obs("setGroup", "sent", 1, r, EmptyObj, "")
  /\ UNCHANGED <<variant, sessionId, currentPlan, flags, cookie, now, mounted>>

setGroup_ok(r, sessionData) ==
  /\ r.op = "setGroup"
  /\ inflight' = inflight \ {r}
  /\ Adopt(sessionData)
  /\ last' = Obs("setGroup", "ok", 0, r, sessionData, "")
  /\ UNCHANGED <<variant, now, mounted>>

setGroup_fail(r) ==
  /\ r.op = "setGroup"
  /\ inflight' = inflight \ {r}
  /\ FailureLogged
  /\ last' = Failed(r, EmptyObj)
  /\ UNCHANGED <<variant, now, mounted>>

\* ---- upgrade (alpha2)
\* the validation without its planId test
UpgradeSkips_session_only(planId) == sessionId = ""
UpgradeSkips(planId) == sessionId = "" \/ planId = ""

upgrade(planId) ==
  /\ mounted
  /\ HasOp("upgrade")
  /\ IF UpgradeSkips(planId)
     THEN /\ UNCHANGED inflight
          /\ last' = Obs("upgrade", "skipped", 0, Req("upgrade", sessionId, EmptyObj, planId), EmptyObj, "")
     ELSE LET r == Req("upgrade", sessionId, EmptyObj, planId) IN
          /\ Send(r)
          /\ last' = Obs("upgrade", "sent", 1, r, EmptyObj, "")
  /\ UNCHANGED <<variant, sessionId, currentPlan, flags, cookie, now, mounted>>

\* an upgrade that takes the plan it asked for as the tier of the session
upgrade_ok_sets_plan(r, redirectUrl) ==
  /\ r.op = "upgrade"
  /\ inflight' = inflight \ {r}
  /\ currentPlan' = r.planId
  /\ last' = Obs("upgrade", IF redirectUrl THEN "redirect" ELSE "ok", 0, r, EmptyObj, "")
  /\ UNCHANGED <<variant, sessionId, flags, cookie, now, mounted>>

\* data.redirectUrl present: window.location.href is assigned
upgrade_ok(r, redirectUrl) ==
  /\ r.op = "upgrade"
  /\ inflight' = inflight \ {r}
  /\ last' = Obs("upgrade", IF redirectUrl THEN "redirect" ELSE "ok", 0, r, EmptyObj, "")
  /\ UNCHANGED <<variant, sessionId, currentPlan, flags, cookie, now, mounted>>

upgrade_fail(r, responseText) ==
  /\ r.op = "upgrade"
  /\ inflight' = inflight \ {r}
  /\ FailureLogged
  /\ last' = Failed(r, [text |-> responseText])
  /\ UNCHANGED <<variant, now, mounted>>

\* ---- summary (alpha2)
summary ==
  /\ mounted
  /\ HasOp("summary")
  /\ Send(Req("summary", "", EmptyObj, ""))
  /\ last' = Obs("summary", "sent", 1, Req("summary", "", EmptyObj, ""), EmptyObj, "")
  /\ UNCHANGED <<variant, sessionId, currentPlan, flags, cookie, now, mounted>>

summary_ok(r) ==
  /\ r.op = "summary"
  /\ inflight' = inflight \ {r}
  /\ last' = Obs("summary", "ok", 0, r, EmptyObj, "")
  /\ UNCHANGED <<variant, sessionId, currentPlan, flags, cookie, now, mounted>>

summary_fail(r, responseText) ==
  /\ r.op = "summary"
  /\ inflight' = inflight \ {r}
  /\ FailureLogged
  /\ last' = Failed(r, [text |-> responseText])
  /\ UNCHANGED <<variant, now, mounted>>

\* ---- the page is loaded again: fresh component state, pending promises are gone
Reload ==
  /\ mounted
  /\ mounted' = FALSE
  /\ SetState("", "none", {})
  /\ inflight' = {}
  /\ last' = Obs("reload", "ok", 0, NoReq, EmptyObj, "")
  /\ UNCHANGED <<variant, cookie, now>>

\* another script of the page, or the user, leaves a text of its own in the jar
ForeignCookie ==
  /\ cookie' = {[value |-> NotJson, expires |-> Days(Forever)]}
  /\ last' = Obs("foreign", "ok", 0, NoReq, EmptyObj, "")
  /\ UNCHANGED <<variant, sessionId, currentPlan, flags, inflight, now, mounted>>

Tick ==
  /\ now + TickMs <= TickMs * (MaxTicks + 1)
  /\ now' = now + TickMs
  /\ last' = Obs("tick", "ok", 0, NoReq, EmptyObj, "")
  /\ UNCHANGED <<variant, sessionId, currentPlan, flags, cookie, inflight, mounted>>

Next ==
  \/ Bootstrap
  \/ forget
  \/ \E config \in Configs : identify(config)
  \/ \E r \in inflight, b \in Bodies(variant) : identify_ok(r, b)
  \/ \E r \in inflight, t \in ErrorTexts : identify_fail(r, t)
  \/ \E r \in inflight, b \in Bodies(variant) : refresh_ok(r, b)
  \/ \E r \in inflight : refresh_fail(r)
  \/ setGroup
  \/ \E r \in inflight, b \in Bodies(variant) : setGroup_ok(r, b)
  \/ \E r \in inflight : setGroup_fail(r)
  \/ \E planId \in PlanIds : upgrade(planId)
  \/ \E r \in inflight, u \in BOOLEAN : upgrade_ok(r, u)
  \/ \E r \in inflight, t \in ErrorTexts : upgrade_fail(r, t)
  \/ summary
  \/ \E r \in inflight : summary_ok(r)
  \/ \E r \in inflight, t \in ErrorTexts : summary_fail(r, t)
  \/ Reload
  \/ ForeignCookie
  \/ Tick

Spec == Init /\ [][Next]_vars

(***************************************************************************)
(* Properties                                                              *)
(***************************************************************************)
\* the tier a body carries, under whichever name
TierOf(b) == IF "plan" \in DOMAIN b THEN b.plan
             ELSE IF "pkgId" \in DOMAIN b THEN b.pkgId
             ELSE Get(b, "package")
Anonymous == sessionId = "" /\ currentPlan = "none" /\ flags = {}
Persisted == JSON_parse(Cookies_get)
MemoryIs(b) == sessionId = b.sessionId /\ currentPlan = TierOf(b) /\ flags = b.flags
PersistedIs(b) ==
  /\ cookie # {}
  /\ Get(Persisted, "sessionId") = b.sessionId
  /\ TierOf(Persisted) = TierOf(b)
  /\ Get(Persisted, "flags") = b.flags
Adopting == {"identify", "refresh", "setGroup"}
AdoptedNow == last.op \in Adopting /\ last.outcome = "ok"
\* the window the staleness claims speak of; the first provider of index.tsx
\* has none of its own and is measured against the one that follows it
STALENESS_WINDOW == IF HasDataTtl(variant) THEN DATA_TTL(variant) ELSE DATA_TTL("alphaTtl")

\* C1: once identify has completed on a 200 response, the in-memory
\* sessionId, tier and flags are those of the response body.
C1_IdentifyAdoptsResponse ==
  (last.op = "identify" /\ last.outcome = "ok") => MemoryIs(last.resp)

\* C2: after every completed mutation (identify, refresh, setGroup, forget)
\* the persisted record and the in-memory state agree: the same
\* sessionId/tier/flags, or no cookie and Anonymous.
C2_PersistedEqualsMemory ==
  (AdoptedNow \/ last.op = "forget") =>
     IF cookie = {} THEN Anonymous
     ELSE /\ sessionId = Get(Persisted, "sessionId")
          /\ currentPlan = TierOf(Persisted)
          /\ flags = Get(Persisted, "flags")

\* C3: when a 200 response is adopted while another record-mutating request
\* is still in flight, memory and storage both hold the whole record of the
\* response that completed last.
C3_LastResponseWinsWhole ==
  (AdoptedNow /\ \E r \in inflight : r.op \in Adopting) =>
     MemoryIs(last.resp) /\ PersistedIs(last.resp)

\* C4: an identify that receives a non-ok response leaves memory and cookie
\* as they were and raises an error carrying the response text.
C4_IdentifyFailureRaises ==
  [][(last'.op = "identify" /\ last'.outcome \in {"logged", "raised"}) =>
       /\ UNCHANGED <<sessionId, currentPlan, flags, cookie>>
       /\ last'.outcome = "raised"
       /\ last'.text = last'.resp.text]_vars

\* C5: bootstrap on a persisted record of age now - time: younger than the
\* staleness window, it is adopted with no request; otherwise exactly one
\* refresh for its sessionId is issued and the record is not adopted.
C5_BootstrapStaleness ==
  (last.op = "bootstrap" /\ cookie # {} /\ "time" \in DOMAIN Persisted) =>
     IF now - Persisted.time < STALENESS_WINDOW
     THEN /\ last.outcome = "adopted"
          /\ last.calls = 0
          /\ inflight = {}
          /\ sessionId = Persisted.sessionId
     ELSE /\ last.outcome = "refresh"
          /\ last.calls = 1
          /\ inflight = {Req("refresh", Persisted.sessionId, EmptyObj, "")}
          /\ Anonymous

\* C6: forget issues no request, removes the cookie and resets memory to
\* Anonymous, whatever the state before it, a forget just before included.
C6_ForgetResets ==
  [][last'.op = "forget" =>
       /\ cookie' = {}
       /\ sessionId' = "" /\ currentPlan' = "none" /\ flags' = {}
       /\ inflight' = inflight
       /\ last'.calls = 0
       /\ last'.outcome = "ok"]_vars

C6_ForgetTwice == last.op = "forget" /\ last.repeat /\ cookie = {} /\ Anonymous

\* C7: setGroup called while Anonymous with no cookie issues no request,
\* raises nothing and leaves the state Anonymous.
C7_SetGroupAnonymousNoop ==
  [][(last'.op = "setGroup" /\ last'.outcome \in {"sent", "skipped"}
      /\ Anonymous /\ cookie = {}) =>
       /\ last'.outcome = "skipped"
       /\ last'.calls = 0
       /\ inflight' = inflight
       /\ UNCHANGED <<sessionId, currentPlan, flags, cookie>>]_vars

\* C8: upgrade called with an empty current sessionId or an empty planId
\* issues no request, raises nothing and leaves memory and cookie unchanged.
C8_UpgradeValidation ==
  [][(last'.op = "upgrade" /\ last'.outcome \in {"sent", "skipped", "raised"}
      /\ (sessionId = "" \/ last'.req.planId = "")) =>
       /\ last'.outcome = "skipped"
       /\ last'.calls = 0
       /\ inflight' = inflight
       /\ UNCHANGED <<sessionId, currentPlan, flags, cookie>>]_vars

C8_UpgradeSkipped ==
  /\ last.op = "upgrade" /\ last.outcome = "skipped"
  /\ last.req.sessionId # "" /\ last.req.planId = ""

\* C9: a refresh or setGroup that receives a non-ok response leaves the
\* in-memory state and the cookie (its time included) exactly as they were.
C9_FailureLeavesRecord ==
  [][(last'.op \in {"refresh", "setGroup"} /\ last'.outcome \in {"logged", "raised"}) =>
       UNCHANGED <<sessionId, currentPlan, flags, cookie>>]_vars

C9_StaleRefreshFailed ==
  /\ last.op = "refresh" /\ last.outcome = "logged"
  /\ cookie # {}
  /\ ~Fresh(Persisted)

C11_EmptySessionIsAnonymous ==
  sessionId = "" => (currentPlan = "none" /\ flags = {})

C11_EmptyAfterAdoption == AdoptedNow /\ sessionId = "" /\ cookie # {}

\* C12: a persisted value that cannot be parsed is treated as absent: the
\* mount effect ends Anonymous as it does without a cookie, setGroup's
\* cookie lookup skips, and neither raises.
CookieCorrupt == cookie # {} /\ JSON_parse_throws(Cookies_get)
C12_CorruptIsAbsent ==
  (CookieCorrupt /\ last.op \in {"bootstrap", "setGroup"}) =>
     /\ last.outcome # "raised"
     /\ last.op = "bootstrap" => (last.outcome = "absent" /\ mounted /\ Anonymous)

\* the expiry of the cookie in the jar, in DayUnits
CookieExpires == (CHOOSE c \in cookie : TRUE).expires
IdentifiedNow == last.op = "identify" /\ last.outcome = "ok"

\* C13: a successful identify given config.ttl persists the record with an
\* expiry of ttl / 86400 days.
C13_TtlSecondsToDays ==
  (IdentifiedNow /\ "ttl" \in DOMAIN last.req.config) =>
     /\ cookie # {}
     /\ (last.req.config.ttl * DayUnits) % 86400 = 0
     /\ CookieExpires = (last.req.config.ttl * DayUnits) \div 86400

\* C18: a successful identify given no config.ttl persists the record with
\* the expiry refresh and setGroup use, 36500 days.
C18_DefaultExpiryForever ==
  (IdentifiedNow /\ "ttl" \notin DOMAIN last.req.config) =>
     (cookie # {} /\ CookieExpires = Days(Forever))

\* C19: a successful refresh or setGroup persists the whole record of its
\* response with an expiry of 36500 days, whatever the expiry before it.
C19_AdoptionResetsExpiry ==
  (last.op \in {"refresh", "setGroup"} /\ last.outcome = "ok") =>
     (PersistedIs(last.resp) /\ CookieExpires = Days(Forever))

C19_SetGroupAdopted ==
  /\ last.op = "setGroup" /\ last.outcome = "ok"
  /\ cookie # {}
  /\ CookieExpires = Days(Forever)

\* C14: no step of upgrade (skipped, sent, answered 200 with or without a
\* redirect URL, or failed) changes the in-memory cells or the persisted record.
C14_UpgradeLeavesRecord ==
  [][last'.op = "upgrade" => UNCHANGED <<sessionId, currentPlan, flags, cookie>>]_vars

C14_UpgradeRedirected ==
  /\ last.op = "upgrade" /\ last.outcome = "redirect"
  /\ sessionId # "" /\ cookie # {}

\* the record persisted in a jar and its fetchedAt, the `time` field
RecordIn(jar) == JSON_parse((CHOOSE c \in jar : TRUE).value)
HasTime(jar) == jar # {} /\ "time" \in DOMAIN RecordIn(jar)
TimeIn(jar) == RecordIn(jar).time

\* C15: after every adoption the persisted record carries a `time`, and it is
\* the local clock at adoption, whatever `time` the response carried.
C15_FetchedAtIsLocalClock ==
  AdoptedNow => (HasTime(cookie) /\ TimeIn(cookie) = now)

\* C16: an adoption never moves the fetchedAt of the persisted record
\* backwards.
C16_FetchedAtMonotone ==
  [][(last'.op \in Adopting /\ last'.outcome = "ok" /\ HasTime(cookie)) =>
        (HasTime(cookie') /\ TimeIn(cookie') >= TimeIn(cookie))]_vars

\* C17: a bootstrap that loads a persisted record within the staleness window
\* leaves memory with the sessionId, the tier and the flags of that record,
\* the tier being the one the adoption wrote, under whichever field it wrote.
C17_PersistLoadRoundTrip ==
  (/\ last.op = "bootstrap" /\ last.outcome = "adopted"
   /\ HasTime(cookie) /\ TimeIn(cookie) + STALENESS_WINDOW > now) =>
     MemoryIs(Persisted)

\* does a successful response of the operation set the in-memory cells
UpdatesMemory(op) == IF op = "identify" THEN IdentifySetsState ELSE AdoptSetsState

\* C20: forget abandons no request in flight, and an identify, refresh or
\* setGroup response that succeeds right after a forget is adopted all the
\* same: its record is persisted and, where the operation sets memory, its
\* sessionId and flags become the in-memory ones.
C20_LateResponseAdopted ==
  [][/\ last'.op = "forget" => inflight' = inflight
     /\ (last.op = "forget" /\ last'.op \in Adopting /\ last'.outcome = "ok") =>
          /\ PersistedIs(last.resp)'
          /\ UpdatesMemory(last'.op) =>
               (sessionId' = last'.resp.sessionId /\ flags' = last'.resp.flags)]_vars

C20_AdoptedAfterForget ==
  /\ AdoptedNow /\ last.afterForget
  /\ cookie # {}
  /\ UpdatesMemory(last.op) /\ sessionId # ""

\* C21: an upgrade with a non-empty planId that follows a successful identify
\* passes the sessionId validation and sends a request that carries the
\* sessionId the identify response returned.
C21_UpgradeAfterIdentify ==
  [][(/\ IdentifiedNow
      /\ last'.op = "upgrade" /\ last'.outcome \in {"sent", "skipped"}
      /\ last'.req.planId # "") =>
        (last'.outcome = "sent" /\ last'.req.sessionId = last.resp.sessionId)]_vars
====
